---------------------------- MODULE Spec2Model ----------------------------
(***************************************************************************)
(* Model of the hero.page mirror: the request router of proxy_server.py    *)
(* (WaybackProxyHandler.do_GET and its helpers), the two source adapters,  *)
(* the fetch orchestrator, the file cache and the content rewriter of      *)
(* content_utils.py.                                                       *)
(*                                                                         *)
(* Markup is a sequence of text fragments (strings).  A regular expression *)
(* of the rewriter is modelled by the set of fragments it matches, so a    *)
(* match never spans two fragments.  A URL path is the sequence of its     *)
(* segments: "/blog" is <<"blog">>, "/" is <<>>, "/a/../b" is              *)
(* <<"a", "..", "b">>.                                                     *)
(***************************************************************************)
EXTENDS Integers, Sequences, FiniteSets, TLC

(***************************************************************************)
(* Bounds of the model.                                                    *)
(***************************************************************************)
NumWorkers == 2      \* handler threads alive at the same time
MaxRequests == 2     \* requests accepted in one behaviour
MaxFragments == 3    \* fragments of a markup given to fix_content on its own

(***************************************************************************)
(* Program constants.                                                      *)
(***************************************************************************)
WAYBACK_TIMESTAMP == "20240419175536"
ORIGINAL_DOMAIN == "hero.page"
LOCAL_DOMAIN == "localhost:8000"
MinDocLen == 1000

(***************************************************************************)
(* Python values: None / a str, and truthiness of `if content`.            *)
(***************************************************************************)
None == [present |-> FALSE, text |-> <<>>]
Str(t) == [present |-> TRUE, text |-> t]
Truthy(c) == c.present /\ c.text # <<>>

RECURSIVE Flatten(_)
Flatten(ss) == IF ss = <<>> THEN <<>> ELSE Head(ss) \o Flatten(Tail(ss))

\* re.sub / str.replace over fragments: fragment i is replaced by R[i].
Splice(content, R) == Flatten([i \in 1..Len(content) |-> R[i]])

Contains(content, f) == \E i \in 1..Len(content) : content[i] = f

RECURSIVE PathStr(_)
PathStr(path) ==
    IF path = <<>> THEN ""
    ELSE "/" \o Head(path) \o PathStr(Tail(path))

\* the text of a path as the request line carries it ("/" for the root)
PathText(path) == IF path = <<>> THEN "/" ELSE PathStr(path)


(***************************************************************************)
(* content_utils.fix_content.  Each regular expression is the set of       *)
(* fragments it matches.                                                   *)
(***************************************************************************)
\* https://web\.archive\.org/web/\d+id_/https://hero\.page
WaybackIdPrefix == {"https://web.archive.org/web/20240419175536id_/https://hero.page"}
\* https://web\.archive\.org/web/\d+/https://hero\.page
WaybackPrefix == {"https://web.archive.org/web/20240419175536/https://hero.page"}

\* https?://quibey\.com/ , https?://hero\.page/ , //hero\.page/ , //quibey\.com/
HostSlash == {"https://quibey.com/", "http://quibey.com/", "https://hero.page/",
              "http://hero.page/", "//hero.page/", "//quibey.com/"}
\* the same hosts without the slash, matched only before a quote (?=["'])
HostBare == {"https://quibey.com", "https://hero.page", "//hero.page", "//quibey.com"}
Quote == {"\"", "'"}

\* (?i) https?://cdn-2\.hero\.com , https?://cdn\.hero\.page
CdnAbsolute == {"https://cdn-2.hero.com", "http://cdn.hero.page", "HTTPS://CDN.HERO.PAGE"}
\* (?i) //cdn-2\.hero\.com , //cdn\.hero\.page
CdnRelative == {"//cdn-2.hero.com", "//cdn.hero.page"}

CanonicalTag(domain, path) ==
    "<link rel=\"canonical\" href=\"https://" \o domain \o PathText(path) \o "\" />"

\* paths and domains a canonical tag of the model may name
KnownPaths == {<<>>, <<"blog">>, <<"about">>, <<"style.css">>, <<"sitemap.xml">>,
               <<"robots.txt">>, <<"docs">>}
KnownDomains == {LOCAL_DOMAIN}

\* (?i) <link[^>]*rel=["']canonical["'][^>]*?/?>
CanonicalLink ==
    {"<link rel=\"canonical\" href=\"https://hero.page/blog\">",
     "<LINK REL='canonical' HREF='https://quibey.com/blog'/>"}
    \cup {CanonicalTag(d, p) : d \in KnownDomains, p \in KnownPaths}

\* <head[^>]*>  (case-sensitive; [^>]* also accepts the rest of "<header")
HeadOpen == {"<head>", "<head lang=\"en\">", "<header>"}

\* <script[^>]*src="[^"]*main\.[^"]*\.js"[^>]*></script>
MainScript == {"<script src=\"/static/js/main.8f3a.js\"></script>"}
\* <script[^>]*src="[^"]*chunk\.[^"]*\.js"[^>]*></script>
ChunkScript == {"<script src=\"/static/js/2.chunk.1a2b.js\"></script>"}
\* <script>window\.__REACT.*?</script>  (DOTALL)
ReactInline == {"<script>window.__REACT_QUERY_STATE__={}</script>"}

css_fix ==
    "<style>\na, a *, [href] { pointer-events: auto !important; cursor: pointer !important; }\n</style>"

RootMainWindow == "<div class=\"main-window\" id=\"root\"></div>"
RootPlain == "<div id=\"root\"></div>"

\* pieces of text that spell a string fix_content looks for once the text
\* between them is gone
PeHead == "pointer-events: no"
PeTail == "ne"
RootOpen == "<div id=\"root\">"
DivClose == "</div>"

\* str.replace and the `in` test read the text as one string: two pieces
\* that stand next to each other are the string they spell
RECURSIVE Merge(_)
Merge(content) ==
    IF Len(content) < 2 THEN content
    ELSE IF content[1] = PeHead /\ content[2] = PeTail
    THEN <<"pointer-events: none">> \o Merge(SubSeq(content, 3, Len(content)))
    ELSE IF content[1] = RootOpen /\ content[2] = DivClose
    THEN <<RootPlain>> \o Merge(SubSeq(content, 3, Len(content)))
    ELSE <<content[1]>> \o Merge(Tail(content))

\* <title>([^<]+)</title> and group(1)
TitleTag == {"<title>Hero Blog</title>", "<title>Quibey</title>"}
TitleGroup(f) == IF f = "<title>Hero Blog</title>" THEN "Hero Blog" ELSE "Quibey"
\* <meta name="description" content="([^"]+)" and group(1)
DescTag == {"<meta name=\"description\" content=\"Link in bio pages\""}
DescGroup(f) == "Link in bio pages"

fallback_content(title, description) ==
    "\n<div style=\"max-width: 800px; margin: 50px auto; padding: 20px; font-family: -apple-system, BlinkMacSystemFont, 'Segoe UI', Roboto, sans-serif;\">\n    <h1 style=\"color: #333;\">"
    \o title
    \o "</h1>\n    <p style=\"color: #666; font-size: 18px;\">"
    \o description
    \o "</p>\n    <hr style=\"margin: 30px 0; border: none; border-top: 1px solid #eee;\">\n    <p style=\"color: #999;\">This page's full content was not archived. <a href=\"/\" style=\"color: #e82f64;\">Return to homepage</a></p>\n</div>\n"

\* re.sub(pattern, "", content): matched fragments disappear
Remove(content, matches) ==
    Splice(content, [i \in 1..Len(content) |->
        IF content[i] \in matches THEN <<>> ELSE <<content[i]>>])

\* re.sub / str.replace of every fragment of `matches` by the fragment `by`
Replace(content, matches, by) ==
    Splice(content, [i \in 1..Len(content) |->
        IF content[i] \in matches THEN <<by>> ELSE <<content[i]>>])

\* re.sub with a lookahead for a quote: only a match followed by a quote
ReplaceBeforeQuote(content, matches, by) ==
    Splice(content, [i \in 1..Len(content) |->
        IF /\ content[i] \in matches
           /\ i < Len(content)
           /\ content[i + 1] \in Quote
        THEN <<by>> ELSE <<content[i]>>])

\* lines 10-19
StripWayback(content) == Remove(Remove(content, WaybackIdPrefix), WaybackPrefix)

\* lines 22-29
LocalLinks(content) ==
    ReplaceBeforeQuote(Replace(content, HostSlash, "/"), HostBare, "/")

\* lines 32-55
CdnHosts(content) ==
    Replace(Replace(content, CdnAbsolute, "https://cdn-2.quibey.com"),
            CdnRelative, "//cdn-2.quibey.com")

\* lines 58-71: drop canonical tags, then add one after the first <head...>
Canonical(content, path, domain) ==
    LET stripped == Remove(content, CanonicalLink)
        heads == {i \in 1..Len(stripped) : stripped[i] \in HeadOpen}
    IN  IF heads = {} THEN stripped
        ELSE LET first == CHOOSE i \in heads : \A j \in heads : i <= j
             IN  Splice(stripped, [i \in 1..Len(stripped) |->
                    IF i = first
                    THEN <<stripped[i], "\n", CanonicalTag(domain, path)>>
                    ELSE <<stripped[i]>>])

\* lines 74-91
StripScripts(content) ==
    Remove(Remove(Remove(content, MainScript), ChunkScript), ReactInline)

\* lines 94-95
PointerEvents(content) ==
    Replace(Replace(Merge(content), {"pointer-events: none"}, "pointer-events: auto"),
            {"pointer-events:none"}, "pointer-events:auto")

\* lines 98-102
CssOverride(content) ==
    IF Contains(content, "</head>")
    THEN Splice(content, [i \in 1..Len(content) |->
            IF content[i] = "</head>" THEN <<css_fix, "</head>">>
            ELSE <<content[i]>>])
    ELSE content

\* the fallback rule as it would be if it needed a <title> to act
fallback_needs_title(content) ==
    IF \E i \in 1..Len(content) : content[i] \in TitleTag
    THEN Splice(Merge(content), [i \in 1..Len(Merge(content)) |->
            IF Merge(content)[i] = RootPlain
            THEN <<RootOpen, fallback_content("Quibey", ""), DivClose>>
            ELSE <<Merge(content)[i]>>])
    ELSE content

\* lines 105-134
Fallback(content) ==
    LET text == Merge(content)
    IN  IF Contains(text, RootMainWindow) \/ Contains(text, RootPlain)
        THEN LET titles == {i \in 1..Len(text) : text[i] \in TitleTag}
                 descs == {i \in 1..Len(text) : text[i] \in DescTag}
                 title == IF titles = {} THEN "Hero Page"
                          ELSE TitleGroup(text[CHOOSE i \in titles :
                                                   \A j \in titles : i <= j])
                 description == IF descs = {} THEN ""
                                ELSE DescGroup(text[CHOOSE i \in descs :
                                                        \A j \in descs : i <= j])
                 block == fallback_content(title, description)
             IN  Splice(text, [i \in 1..Len(text) |->
                    IF text[i] = RootMainWindow
                    THEN <<"<div class=\"main-window\" id=\"root\">", block, DivClose>>
                    ELSE IF text[i] = RootPlain
                    THEN <<RootOpen, block, DivClose>>
                    ELSE <<text[i]>>])
        ELSE content

\* fix_content as it would be with the pointer-events rule (lines 94-95)
\* ahead of the removal of the scripts (lines 74-91)
fix_content_pointer_first(content, path, domain) ==
    Fallback(CssOverride(StripScripts(PointerEvents(
        Canonical(CdnHosts(LocalLinks(StripWayback(content))), path, domain)))))

\* lines 10-102: the text the fallback rule receives
BeforeFallback(content, path, domain) ==
    CssOverride(PointerEvents(StripScripts(
        Canonical(CdnHosts(LocalLinks(StripWayback(content))), path, domain))))

fix_content(content, path, domain) ==
    Fallback(BeforeFallback(content, path, domain))


(***************************************************************************)
(* State.                                                                  *)
(***************************************************************************)
VARIABLES
    STATIC_ONLY,            \* env STATIC_ONLY is one of 1/true/yes
    REMOTE_FETCH_ENV,       \* env ALLOW_REMOTE_FETCH is one of 1/true/yes
    PLAYWRIGHT_AVAILABLE,   \* the playwright import succeeded
    cache,                  \* files of CACHE_DIR: file name -> text
    req,                    \* per handler thread: the request it serves
    accepted,               \* requests accepted so far
    cached_done,            \* paths whose fetch, rewrite and cache write completed
    probe,                  \* a call of fetch_content on its own
    rewrite                 \* a call of fix_content on its own, and its repeat

vars == <<STATIC_ONLY, REMOTE_FETCH_ENV, PLAYWRIGHT_AVAILABLE, cache, req,
          accepted, cached_done, probe, rewrite>>

Workers == 1..NumWorkers

\* ALLOW_REMOTE_FETCH as it would be without the "not STATIC_ONLY" conjunct
allow_ignoring_static_only == REMOTE_FETCH_ENV

\* proxy_server.py lines 33-37
ALLOW_REMOTE_FETCH == ~STATIC_ONLY /\ REMOTE_FETCH_ENV

(***************************************************************************)
(* Upstream documents and what the two upstream hosts may do.              *)
(***************************************************************************)
RenderedBody == "<body><div id=\"root\"><main>rendered page</main></div></body>"

\* len(): RenderedBody stands for 1200 characters of rendered markup
FragLen(f) == IF f = RenderedBody THEN 1200 ELSE Len(f)

RECURSIVE DocLen(_)
DocLen(d) == IF d = <<>> THEN 0 ELSE FragLen(Head(d)) + DocLen(Tail(d))

Whitespace == {"\n", " "}

\* str.strip(), on the left end (all that startswith looks at)
RECURSIVE LStripWs(_)
LStripWs(d) ==
    IF d # <<>> /\ Head(d) \in Whitespace THEN LStripWs(Tail(d)) ELSE d

\* the test of line 136 as it would be without strip()
looks_like_document_unstripped(d) ==
    d # <<>> /\ Head(d) \in {"<!DOCTYPE html>", "<html>", "<html lang=\"en\">"}

\* content.strip().startswith("<!") or content.strip().startswith("<html")
DocStart == {"<!DOCTYPE html>", "<html>", "<html lang=\"en\">"}
LooksLikeDocument(d) == LStripWs(d) # <<>> /\ Head(LStripWs(d)) \in DocStart

QuibeyDoc ==
    <<"\n", "<!DOCTYPE html>", "<head>",
      "<link rel=\"canonical\" href=\"https://hero.page/blog\">", "</head>",
      RenderedBody, "<script src=\"/static/js/main.8f3a.js\"></script>">>

ShortDoc == <<"<!DOCTYPE html>", "<head>", "</head>">>

HeadlessDoc == <<"<body>", RenderedBody>>

\* the archive delivers the bytes of the original page, CRLF line ends kept
WaybackDoc ==
    <<"<html>", "\r\n", "<head>", "<title>Hero Blog</title>", "</head>",
      "<a href=\"",
      "https://web.archive.org/web/20240419175536id_/https://hero.page",
      "/blog\" style=\"", "pointer-events: none", "\">", RootPlain>>

\* what page.goto / page.content may do for one call of the render adapter
RenderEnv ==
    {[kind |-> "raises", ctype |-> "", dom |-> <<>>],
     [kind |-> "page", ctype |-> "application/json", dom |-> ShortDoc],
     [kind |-> "page", ctype |-> "text/html; charset=utf-8", dom |-> ShortDoc],
     [kind |-> "page", ctype |-> "text/html; charset=utf-8", dom |-> HeadlessDoc],
     [kind |-> "page", ctype |-> "text/html; charset=utf-8", dom |-> QuibeyDoc]}

HtmlTypes == {"text/html; charset=utf-8", "text/html"}

\* what urlopen may do for one call of the archive adapter
ArchiveEnv ==
    {[kind |-> "response", code |-> 200, body |-> WaybackDoc],
     [kind |-> "response", code |-> 200, body |-> <<>>],
     [kind |-> "response", code |-> 203, body |-> WaybackDoc],
     [kind |-> "HTTPError", code |-> 404, body |-> <<>>],
     [kind |-> "URLError", code |-> 0, body |-> <<>>]}

Result(c, s) == [content |-> c, status |-> s]

\* proxy_server.py fetch_from_quibey
fetch_from_quibey(path, env) ==
    IF ~PLAYWRIGHT_AVAILABLE THEN Result(None, 500)
    ELSE IF env.kind = "raises" THEN Result(None, 500)
    ELSE IF env.ctype \notin HtmlTypes THEN Result(None, 404)
    ELSE IF DocLen(env.dom) > MinDocLen /\ LooksLikeDocument(env.dom)
         THEN Result(Str(env.dom), 200)
         ELSE Result(None, 404)

\* fetch_from_wayback as it would be if it reported every response as 200
fetch_from_wayback_always_200(path, env) ==
    IF env.kind = "response" THEN Result(Str(env.body), 200)
    ELSE IF env.kind = "HTTPError" THEN Result(None, env.code)
    ELSE Result(None, 500)

\* fetch_from_wayback as it would be without "except Exception" (lines
\* 161-163): an error of the network leaves the adapter as an exception
fetch_from_wayback_uncaught(path, env) ==
    IF env.kind = "response" THEN Result(Str(env.body), env.code)
    ELSE IF env.kind = "HTTPError" THEN Result(None, env.code)
    ELSE [raised |-> env.kind]

\* proxy_server.py fetch_from_wayback
fetch_from_wayback(path, env) ==
    IF env.kind = "response" THEN Result(Str(env.body), env.code)
    ELSE IF env.kind = "HTTPError" THEN Result(None, env.code)
    ELSE Result(None, 500)

Success(r) == Truthy(r.content) /\ r.status = 200

\* fetch_content as it would be if it reported a failure of both adapters
\* with a status of its own
fetch_content_own_failure(path, renv, aenv) ==
    LET rendered == fetch_from_quibey(path, renv)
        archived == fetch_from_wayback(path, aenv)
    IN  IF Success(rendered)
        THEN [result |-> rendered, archive_called |-> FALSE]
        ELSE IF Success(archived)
        THEN [result |-> archived, archive_called |-> TRUE]
        ELSE [result |-> Result(None, 502), archive_called |-> TRUE]

\* proxy_server.py fetch_content: the archive adapter is called only when
\* the render adapter did not succeed
fetch_content(path, renv, aenv) ==
    LET rendered == fetch_from_quibey(path, renv)
    IN  IF Success(rendered)
        THEN [result |-> rendered, archive_called |-> FALSE]
        ELSE [result |-> fetch_from_wayback(path, aenv), archive_called |-> TRUE]

(***************************************************************************)
(* The working directory, apart from the cache.                            *)
(***************************************************************************)
Files ==
    {<<"sitemap.xml">>,
     <<"proxy_server.py">>,
     <<"static_pages", "about", "index.html">>,
     <<"static_pages", "style.css">>,
     <<"static_pages", "locked.html">>,
     <<"static_pages", "docs", "guide.pdf">>}

\* files whose read raises (PermissionError)
Unreadable == {<<"static_pages", "locked.html">>}

\* the bytes of a file; sitemap.xml was saved with CRLF line ends
file_bytes(loc) ==
    IF loc = <<"sitemap.xml">>
    THEN <<"<?xml version=\"1.0\" encoding=\"UTF-8\"?>", "\r\n",
           "<urlset></urlset>", "\r\n">>
    ELSE <<"contents of " \o PathStr(loc)>>

\* Path.read_text(encoding='utf-8'): the file is opened in text mode with
\* newline=None, so "\r\n" and "\r" are read as "\n"
read_text(bytes) == Replace(bytes, {"\r\n", "\r"}, "\n")

IsPrefix(a, b) == Len(a) <= Len(b) /\ SubSeq(b, 1, Len(a)) = a

\* the operating system resolves ".." segments when it opens a path
RECURSIVE Resolve(_, _)
Resolve(done, rest) ==
    IF rest = <<>> THEN done
    ELSE IF Head(rest) = ".."
         THEN Resolve(IF done = <<>> THEN <<>> ELSE SubSeq(done, 1, Len(done) - 1),
                      Tail(rest))
         ELSE IF Head(rest) \in {"", "."} THEN Resolve(done, Tail(rest))
         ELSE Resolve(Append(done, Head(rest)), Tail(rest))

is_file(loc) == Resolve(<<>>, loc) \in Files
is_dir(loc) ==
    \E f \in Files : IsPrefix(Resolve(<<>>, loc), f) /\ Resolve(<<>>, loc) # f
exists(loc) == is_file(loc) \/ is_dir(loc)

\* path.lstrip("/")
RECURSIVE lstrip(_)
lstrip(path) ==
    IF path # <<>> /\ Head(path) = "" THEN lstrip(Tail(path)) ELSE path

\* lines 181-183
seo_applies(path) ==
    /\ path \in {<<"sitemap.xml">>, <<"robots.txt">>}
    /\ exists(lstrip(path))

\* local_file as it would be without the index.html of a directory
local_file_without_index(path) == <<"static_pages">> \o lstrip(path)

\* lines 194-198
local_file(path) ==
    LET joined == <<"static_pages">> \o lstrip(path)
    IN  IF is_dir(joined) /\ exists(joined \o <<"index.html">>)
        THEN joined \o <<"index.html">>
        ELSE joined

\* line 199
static_applies(path) == exists(local_file(path)) /\ is_file(local_file(path))

\* filepath.suffix.lower()
suffix(loc) ==
    LET name == loc[Len(loc)]
    IN  CASE name \in {"index.html", "locked.html"} -> ".html"
          [] name = "style.css" -> ".css"
          [] name = "guide.pdf" -> ".pdf"
          [] name = "sitemap.xml" -> ".xml"
          [] name = "proxy_server.py" -> ".py"
          [] OTHER -> ""

\* lines 270-283 as they would be with text/html for an unknown extension
content_type_html_default(ext) ==
    CASE ext = ".css" -> "text/css"
      [] ext = ".js" -> "application/javascript"
      [] ext = ".json" -> "application/json"
      [] OTHER -> "text/html"

\* lines 270-283
content_type_of(ext) ==
    CASE ext = ".html" -> "text/html"
      [] ext = ".css" -> "text/css"
      [] ext = ".js" -> "application/javascript"
      [] ext = ".json" -> "application/json"
      [] ext = ".png" -> "image/png"
      [] ext \in {".jpg", ".jpeg"} -> "image/jpeg"
      [] ext = ".gif" -> "image/gif"
      [] ext = ".svg" -> "image/svg+xml"
      [] ext = ".ico" -> "image/x-icon"
      [] ext = ".webp" -> "image/webp"
      [] OTHER -> "application/octet-stream"

\* a cache name shared by all paths
cache_path_shared(path) == "md5().html"

\* a cache name that also depends on the request, not on the path alone
cache_path_per_request(path) ==
    "md5(" \o PathText(path) \o "#" \o ToString(accepted) \o ").html"

\* hashlib.md5(path.encode()).hexdigest() + ".html": one name per path text
get_cache_path(path) == "md5(" \o PathText(path) \o ").html"


(***************************************************************************)
(* Requests and responses.                                                 *)
(***************************************************************************)
\* request targets a client may send: the path and the query string
Targets ==
    {[path |-> <<"sitemap.xml">>, query |-> ""],
     [path |-> <<"robots.txt">>, query |-> ""],
     [path |-> <<"blog">>, query |-> ""],
     [path |-> <<"blog">>, query |-> "ref=mail"],
     [path |-> <<"about">>, query |-> ""],
     [path |-> <<"locked.html">>, query |-> ""],
     [path |-> <<"docs", "guide.pdf">>, query |-> ""],
     [path |-> <<"..", "proxy_server.py">>, query |-> ""]}

\* self.path.split('?')[0]
strip_query(target) == target.path

\* what happens to the socket while the response is written
Client == {"ok", "BrokenPipeError", "ConnectionResetError"}

Response(status, ctype, robots, body) ==
    [status |-> status, ctype |-> ctype, robots |-> robots, body |-> body]

IdleRequest ==
    [pc |-> "idle", path |-> <<>>, content |-> None, status |-> 0,
     raw |-> None, emitted |-> <<>>, case |-> 0, evaluated |-> 0,
     render_called |-> FALSE, archive_called |-> FALSE,
     later |-> FALSE, rivals |-> {}]

unavailable_page(path) ==
    <<"\n<!DOCTYPE html>\n<html>\n<head><title>Content Unavailable</title></head>\n<body>\n<h1>Content Unavailable</h1>\n<p>The page ",
      PathText(path),
      " is not available in static-only mode.</p>\n<p><a href=\"/\">Go to homepage</a></p>\n</body>\n</html>">>

empty_page(path) ==
    <<"\n<!DOCTYPE html>\n<html>\n<head><title>Content Unavailable</title></head>\n<body>\n<h1>Content Unavailable</h1>\n<p>The archived content for ",
      PathText(path),
      " could not be retrieved.</p>\n<p><a href=\"/\">Go to homepage</a></p>\n</body>\n</html>">>

not_found_page(path) ==
    <<"\n<!DOCTYPE html>\n<html>\n<head><title>Page Not Found</title></head>\n<body>\n<h1>404 - Page Not Found</h1>\n<p>The page ",
      PathText(path),
      " could not be found.</p>\n<p><a href=\"/\">Go to homepage</a></p>\n</body>\n</html>\n">>

\* send_html_response as it would be if it forwarded the upstream status
send_html_upstream_status(r, status, text, client) ==
    [r EXCEPT !.emitted = Append(@, Response(IF r.status = 0 THEN status ELSE r.status,
                                             "text/html; charset=utf-8", TRUE, text)),
              !.pc = IF client = "ConnectionResetError" THEN "crashed" ELSE "done"]

\* send_html_response: a BrokenPipeError is swallowed, any other error of
\* the socket leaves the handler as an exception
send_html_response(r, status, text, client) ==
    [r EXCEPT !.emitted = Append(@, Response(status, "text/html; charset=utf-8",
                                             TRUE, text)),
              !.pc = IF client = "ConnectionResetError" THEN "crashed" ELSE "done"]

\* http.server send_error(500, ...): an HTML error page
error_response == Response(500, "text/html;charset=utf-8", FALSE, <<"Error response">>)

\* serve_local_file
serve_local_file(r, filepath, client) ==
    IF Resolve(<<>>, filepath) \in Unreadable
    THEN \* read_bytes raises: except Exception -> send_error(500)
         [r EXCEPT !.emitted = Append(@, error_response),
                   !.pc = IF client = "ok" THEN "done" ELSE "crashed"]
    ELSE LET sent == Append(r.emitted,
                            Response(200, content_type_of(suffix(Resolve(<<>>, filepath))),
                                     FALSE, file_bytes(Resolve(<<>>, filepath))))
         IN  IF client = "ConnectionResetError"
             THEN \* except Exception -> send_error(500) on the dead socket
                  [r EXCEPT !.emitted = Append(sent, error_response),
                            !.pc = "crashed"]
             ELSE [r EXCEPT !.emitted = sent, !.pc = "done"]

\* lines 184-191: no exception of the socket is caught here
serve_seo_file(r, client) ==
    [r EXCEPT !.emitted = Append(@, Response(200,
                              IF r.path = <<"sitemap.xml">> THEN "application/xml"
                              ELSE "text/plain",
                              FALSE,
                              read_text(file_bytes(Resolve(<<>>, lstrip(r.path)))))),
              !.pc = IF client = "ok" THEN "done" ELSE "crashed"]

\* line 236 as it would be if it asked for missing content alone
empty_whatever_status(content, status) == ~Truthy(content)

\* line 236 as it would be if the branch were never taken
empty_never(content, status) == FALSE

\* line 236
empty_response(content, status) == status = 200 /\ ~Truthy(content)

\* line 228 as it would be without the test of the content
status_only(content, status) == status = 200

\* line 228
fetch_succeeded(content, status) == Truthy(content) /\ status = 200

Unchanged_config ==
    UNCHANGED <<STATIC_ONLY, REMOTE_FETCH_ENV, PLAYWRIGHT_AVAILABLE, probe, rewrite>>

InFlightMiss(o, path) ==
    req[o].path = path /\ req[o].pc \in {"fetch", "open", "write"}

(***************************************************************************)
(* WaybackProxyHandler.do_GET, one action per step of a handler thread.    *)
(***************************************************************************)
Free(w) == req[w].pc \in {"idle", "done", "crashed"}

\* ThreadingMixIn starts a thread for a request (the free thread slot of
\* lowest number stands for the new thread); lines 178-201: the query
\* string is cut off and the SEO files and the static files are looked at.
\* Both tests read the working directory only, which no thread changes, so
\* they are one step with the start of the handler.
Accept(w, target) ==
    /\ Free(w)
    /\ \A o \in Workers : Free(o) => w <= o
    /\ accepted < MaxRequests
    /\ accepted' = accepted + 1
    /\ LET r == [IdleRequest EXCEPT !.path = strip_query(target),
                                    !.later = strip_query(target) \in cached_done,
                                    !.evaluated = 1]
       IN  IF seo_applies(r.path)
           THEN \E client \in Client :
                   req' = [req EXCEPT ![w] =
                              serve_seo_file([r EXCEPT !.case = 1], client)]
           ELSE IF static_applies(r.path)
           THEN \E client \in Client :
                   req' = [req EXCEPT ![w] =
                       serve_local_file([r EXCEPT !.evaluated = 2, !.case = 2],
                                        local_file(r.path), client)]
           ELSE req' = [req EXCEPT ![w] = [r EXCEPT !.evaluated = 2, !.pc = "cache"]]
    /\ UNCHANGED <<cache, cached_done>>
    /\ Unchanged_config

\* lines 204-205, cache_path.exists(), and on a miss lines 211-222
CheckCache(w) ==
    /\ req[w].pc = "cache"
    /\ IF get_cache_path(req[w].path) \in DOMAIN cache
       THEN req' = [req EXCEPT ![w].evaluated = 3, ![w].case = 3, ![w].pc = "read"]
       ELSE IF ~ALLOW_REMOTE_FETCH
       THEN \E client \in Client :
               req' = [req EXCEPT ![w] =
                   send_html_response([req[w] EXCEPT !.evaluated = 4, !.case = 4],
                                      404, unavailable_page(req[w].path), client)]
       ELSE LET others == {o \in Workers \ {w} : InFlightMiss(o, req[w].path)}
            IN  req' = [o \in Workers |->
                          IF o = w
                          THEN [req[w] EXCEPT !.evaluated = 4, !.pc = "fetch",
                                              !.rivals = others]
                          ELSE IF o \in others
                          THEN [req[o] EXCEPT !.rivals = @ \cup {w}]
                          ELSE req[o]]
    /\ UNCHANGED <<cache, cached_done, accepted>>
    /\ Unchanged_config

\* lines 207-209: cache_path.read_text() and the response
ReadCache(w) ==
    /\ req[w].pc = "read"
    /\ \E client \in Client :
          req' = [req EXCEPT ![w] =
              send_html_response(
                  [req[w] EXCEPT !.content =
                                     Str(read_text(cache[get_cache_path(req[w].path)])),
                                 !.raw = Str(cache[get_cache_path(req[w].path)])],
                  200, read_text(cache[get_cache_path(req[w].path)]), client)]
    /\ UNCHANGED <<cache, cached_done, accepted>>
    /\ Unchanged_config

\* the results fetch_content may return for a path, with whether the
\* archive adapter was called
FetchOutcomes(path) ==
    {fetch_content(path, renv, aenv) : renv \in RenderEnv, aenv \in ArchiveEnv}

\* lines 226-262 up to the cache write: fetch_content, then the three branches
do_fetch(w) ==
    /\ req[w].pc = "fetch"
    /\ \E got \in FetchOutcomes(req[w].path) :
          LET r == [req[w] EXCEPT !.evaluated = 5, !.case = 5,
                                  !.render_called = TRUE,
                                  !.archive_called = got.archive_called,
                                  !.raw = got.result.content,
                                  !.content = got.result.content,
                                  !.status = got.result.status]
          IN  IF fetch_succeeded(r.content, r.status)
              THEN req' = [req EXCEPT ![w] =
                      [r EXCEPT !.content =
                                    Str(fix_content(r.content.text, r.path, LOCAL_DOMAIN)),
                                !.pc = "open"]]
              ELSE \E client \in Client :
                      req' = [req EXCEPT ![w] =
                          IF empty_response(r.content, r.status)
                          THEN send_html_response(r, 404, empty_page(r.path), client)
                          ELSE send_html_response(r, 404, not_found_page(r.path), client)]
    /\ UNCHANGED <<cache, cached_done, accepted>>
    /\ Unchanged_config

\* Fetch as it would be if the "not found" page of a failed fetch were
\* stored in the cache
FetchNegativeCache(w) ==
    /\ req[w].pc = "fetch"
    /\ \E got \in FetchOutcomes(req[w].path) :
          LET r == [req[w] EXCEPT !.evaluated = 5, !.case = 5,
                                  !.render_called = TRUE,
                                  !.archive_called = got.archive_called,
                                  !.raw = got.result.content,
                                  !.content = got.result.content,
                                  !.status = got.result.status]
          IN  IF fetch_succeeded(r.content, r.status)
              THEN /\ req' = [req EXCEPT ![w] =
                         [r EXCEPT !.content =
                                       Str(fix_content(r.content.text, r.path, LOCAL_DOMAIN)),
                                   !.pc = "open"]]
                   /\ cache' = cache
              ELSE /\ \E client \in Client :
                         req' = [req EXCEPT ![w] =
                             send_html_response(r, 404, not_found_page(r.path), client)]
                   /\ cache' = [k \in DOMAIN cache \cup {get_cache_path(r.path)} |->
                                   IF k = get_cache_path(r.path)
                                   THEN not_found_page(r.path) ELSE cache[k]]
    /\ UNCHANGED <<cached_done, accepted>>
    /\ Unchanged_config

\* Fetch as it would be with a per-path lock held from the fetch to the end
\* of the cache write
FetchDeduplicated(w) ==
    /\ \A o \in Workers \ {w} :
          ~(req[o].path = req[w].path /\ req[o].pc \in {"open", "write"})
    /\ do_fetch(w)

\* the handler thread goes on to line 226 whatever the other threads do
Fetch(w) == do_fetch(w)

\* line 233, first half: write_text opens the file with mode "w", which
\* creates it or truncates it
OpenCache(w) ==
    /\ req[w].pc = "open"
    /\ cache' = [k \in DOMAIN cache \cup {get_cache_path(req[w].path)} |->
                    IF k = get_cache_path(req[w].path) THEN <<>> ELSE cache[k]]
    /\ req' = [req EXCEPT ![w].pc = "write"]
    /\ UNCHANGED <<cached_done, accepted>>
    /\ Unchanged_config

\* line 233, second half (write and close), and line 235; on a POSIX system
\* text mode writes every character of the text as it is
WriteCache(w) ==
    /\ req[w].pc = "write"
    /\ cache' = [k \in DOMAIN cache \cup {get_cache_path(req[w].path)} |->
                    IF k = get_cache_path(req[w].path) THEN req[w].content.text
                    ELSE cache[k]]
    /\ \E client \in Client :
          req' = [req EXCEPT ![w] =
                     send_html_response(req[w], 200, req[w].content.text, client)]
    /\ cached_done' = cached_done \cup {req[w].path}
    /\ UNCHANGED accepted
    /\ Unchanged_config

(***************************************************************************)
(* Initial states: the configuration read from the environment, and a      *)
(* cache directory that is empty or kept from an earlier run (made before  *)
(* sitemap.xml and static_pages/about were put in place, and holding the   *)
(* archived /robots.txt).                                                  *)
(***************************************************************************)
EmptyCache == [k \in {} |-> <<>>]

KeptPaths == {<<"about">>, <<"sitemap.xml">>, <<"robots.txt">>}

KeptCache ==
    [k \in {get_cache_path(p) : p \in KeptPaths} |->
        LET p == CHOOSE q \in KeptPaths : get_cache_path(q) = k
        IN  fix_content(WaybackDoc, p, LOCAL_DOMAIN)]

IdleProbe == [stage |-> "off", path |-> <<>>, renv |-> CHOOSE e \in RenderEnv : TRUE,
              aenv |-> CHOOSE e \in ArchiveEnv : TRUE,
              rendered |-> Result(None, 0), archived |-> Result(None, 0),
              out |-> Result(None, 0)]

IdleRewrite == [stage |-> "off", markup |-> <<>>, path |-> <<>>,
                domain |-> LOCAL_DOMAIN, once |-> <<>>, twice |-> <<>>]

Init ==
    /\ STATIC_ONLY \in BOOLEAN
    /\ REMOTE_FETCH_ENV \in BOOLEAN
    /\ PLAYWRIGHT_AVAILABLE \in BOOLEAN
    /\ accepted = 0
    /\ cache \in {EmptyCache, KeptCache}
    /\ cached_done = {p \in KeptPaths : get_cache_path(p) \in DOMAIN cache}
    /\ req = [w \in Workers |-> IdleRequest]
    /\ probe = IdleProbe
    /\ rewrite = IdleRewrite

Next ==
    \E w \in Workers :
        \/ \E target \in Targets : Accept(w, target)
        \/ CheckCache(w)
        \/ ReadCache(w)
        \/ Fetch(w)
        \/ OpenCache(w)
        \/ WriteCache(w)

Spec == Init /\ [][Next]_vars


(***************************************************************************)
(* fetch_content on its own: every path, every behaviour of the two        *)
(* upstream hosts.                                                         *)
(***************************************************************************)
ProbePaths == {<<>>, <<"blog">>, <<"robots.txt">>}

InitFetch ==
    /\ STATIC_ONLY = FALSE
    /\ REMOTE_FETCH_ENV = TRUE
    /\ PLAYWRIGHT_AVAILABLE \in BOOLEAN
    /\ cache = EmptyCache
    /\ cached_done = {}
    /\ req = [w \in Workers |-> IdleRequest]
    /\ accepted = 0
    /\ rewrite = IdleRewrite
    /\ \E path \in ProbePaths, renv \in RenderEnv, aenv \in ArchiveEnv :
          probe = [IdleProbe EXCEPT !.stage = "call", !.path = path,
                                    !.renv = renv, !.aenv = aenv]

ProbeFetch ==
    /\ probe.stage = "call"
    /\ probe' = [probe EXCEPT
                    !.stage = "returned",
                    !.rendered = fetch_from_quibey(probe.path, probe.renv),
                    !.archived = fetch_from_wayback(probe.path, probe.aenv),
                    !.out = fetch_content(probe.path, probe.renv, probe.aenv).result]
    /\ UNCHANGED <<STATIC_ONLY, REMOTE_FETCH_ENV, PLAYWRIGHT_AVAILABLE, cache, req,
                   accepted, cached_done, rewrite>>

NextFetch == ProbeFetch

SpecFetch == InitFetch /\ [][NextFetch]_vars

(***************************************************************************)
(* fix_content on its own: every markup of up to MaxFragments fragments,   *)
(* each fragment one that a rule of fix_content looks for or inserts       *)
(* around, and the call repeated on its own output as the cache-then-serve *)
(* path would if it rewrote again.                                         *)
(***************************************************************************)
Fragments ==
    {"<head>", "<header>", "</head>", "<p>text</p>", "\"",
     "<title>Quibey</title>", "pointer-events: none",
     "https://hero.page", "//cdn.hero.page",
     "https://web.archive.org/web/20240419175536id_/https://hero.page",
     "<link rel=\"canonical\" href=\"https://hero.page/blog\">",
     "<link rel=canonical href=https://hero.page/blog>",
     "<script src=\"/static/js/main.8f3a.js\"></script>",
     "pointer-events:none", PeHead, PeTail,
     RootPlain, RootOpen, DivClose}

Markups == UNION {[1..n -> Fragments] : n \in 0..MaxFragments}

RewritePaths == {<<>>, <<"blog">>}

InitFix ==
    /\ STATIC_ONLY = FALSE
    /\ REMOTE_FETCH_ENV = TRUE
    /\ PLAYWRIGHT_AVAILABLE = TRUE
    /\ accepted = 0
    /\ cache = EmptyCache
    /\ cached_done = {}
    /\ req = [w \in Workers |-> IdleRequest]
    /\ probe = IdleProbe
    /\ \E markup \in Markups, path \in RewritePaths :
          rewrite = [IdleRewrite EXCEPT !.stage = "call", !.markup = markup,
                                        !.path = path]

\* content = fix_content(content, path, LOCAL_DOMAIN)
FixOnce ==
    /\ rewrite.stage = "call"
    /\ rewrite' = [rewrite EXCEPT
                      !.stage = "once",
                      !.once = fix_content(rewrite.markup, rewrite.path, rewrite.domain)]
    /\ UNCHANGED <<STATIC_ONLY, REMOTE_FETCH_ENV, PLAYWRIGHT_AVAILABLE, cache, req,
                   accepted, cached_done, probe>>

\* fix_content again, on what it returned
FixAgain ==
    /\ rewrite.stage = "once"
    /\ rewrite' = [rewrite EXCEPT
                      !.stage = "twice",
                      !.twice = fix_content(rewrite.once, rewrite.path, rewrite.domain)]
    /\ UNCHANGED <<STATIC_ONLY, REMOTE_FETCH_ENV, PLAYWRIGHT_AVAILABLE, cache, req,
                   accepted, cached_done, probe>>

NextFix == FixOnce \/ FixAgain

SpecFix == InitFix /\ [][NextFix]_vars

(***************************************************************************)
(* The claims.                                                             *)
(***************************************************************************)
Ended(r) == r.pc \in {"done", "crashed"}

\* case 1 of the router, as the claim words it
SeoCase(path) ==
    /\ path \in {<<"sitemap.xml">>, <<"robots.txt">>}
    /\ path \in Files

\* case 2 of the router, as the claim words it: static_pages/<path> names
\* a file, or a directory that holds an index.html
StaticCase(path) ==
    LET loc == Resolve(<<>>, <<"static_pages">> \o path)
    IN  \/ loc \in Files
        \/ /\ \E f \in Files : IsPrefix(loc, f)
           /\ (loc \o <<"index.html">>) \in Files

\* remote fetch is disabled, as the claim words it
Disabled == STATIC_ONLY \/ ~REMOTE_FETCH_ENV

C1_State ==
    \A w \in Workers :
        LET r == req[w]
        IN  /\ r.pc \in {"cache", "read", "fetch", "open", "write"} =>
                  ~SeoCase(r.path) /\ ~StaticCase(r.path)
            /\ r.pc \in {"fetch", "open", "write"} => ~Disabled
            /\ r.case # 0 =>
                  /\ r.evaluated = r.case
                  /\ r.case = 1 <=> SeoCase(r.path)
                  /\ r.case = 2 <=> ~SeoCase(r.path) /\ StaticCase(r.path)
                  /\ r.case = 3 => get_cache_path(r.path) \in DOMAIN cache
                  /\ r.case = 4 => Disabled
                  /\ r.case = 5 => r.render_called
            /\ r.case # 5 => ~r.render_called /\ ~r.archive_called

C1_Step ==
    \A w \in Workers :
        /\ req[w].pc = "cache" /\ req'[w].pc = "read" =>
              get_cache_path(req[w].path) \in DOMAIN cache
        /\ req[w].pc = "cache" /\ req'[w].pc \notin {"cache", "read"} =>
              get_cache_path(req[w].path) \notin DOMAIN cache
        /\ req[w].pc = "cache" /\ req'[w].pc = "fetch" => ~Disabled
        /\ req[w].pc = "cache" /\ req'[w].case = 4 => Disabled

\* C1: every request is answered by the first applicable case of SEO file,
\* static file, cache entry, remote fetch disabled, orchestrator; no later
\* case is evaluated, a cache entry is never served when case 1 or 2
\* applies, and the orchestrator is not invoked when a case 1-4 applies.
C1_FirstMatchWins == []C1_State /\ [][C1_Step]_vars

\* a static page answered as a static page although the cache holds an
\* entry under its path
C1_Witness ==
    \E w \in Workers :
        /\ req[w].pc = "done" /\ req[w].case = 2
        /\ get_cache_path(req[w].path) \in DOMAIN cache

C3_OrchestratorResult ==
    probe.stage = "returned" =>
        /\ probe.out = IF probe.rendered.content.present /\ probe.rendered.status = 200
                       THEN probe.rendered
                       ELSE probe.archived
        /\ probe.out \in {probe.rendered, probe.archived}

\* both adapters failed and the archive adapter's failure is what came back
C3_Witness ==
    /\ probe.stage = "returned"
    /\ ~probe.rendered.content.present
    /\ ~probe.archived.content.present /\ probe.archived.status = 404
    /\ probe.out = probe.archived

C4_Step ==
    \A k \in DOMAIN cache' :
        (k \notin DOMAIN cache \/ cache'[k] # cache[k]) =>
            \E w \in Workers :
                /\ req'[w] # req[w]
                /\ req[w].pc \in {"open", "write"}
                /\ get_cache_path(req[w].path) = k
                /\ req[w].case = 5
                /\ req[w].status = 200 /\ Truthy(req[w].raw)
                /\ req[w].pc = "open" => cache'[k] = <<>>
                /\ req[w].pc = "write" =>
                      cache'[k] = fix_content(req[w].raw.text, req[w].path, LOCAL_DOMAIN)

\* C4: the cache changes only in the branch where the orchestrator returned
\* status 200 with content present, and the text written is fix_content of
\* that content; every other way of answering leaves the cache unchanged.
C4_CacheWrittenOnlyOnSuccess ==
    [][C4_Step /\ DOMAIN cache \subseteq DOMAIN cache']_vars

\* a fetched page was rewritten, cached and served
C4_Witness ==
    \E w \in Workers :
        /\ req[w].pc = "done" /\ req[w].case = 5 /\ req[w].status = 200
        /\ Truthy(req[w].raw)
        /\ cache[get_cache_path(req[w].path)] =
              fix_content(req[w].raw.text, req[w].path, LOCAL_DOMAIN)
        /\ req[w].raw.text # fix_content(req[w].raw.text, req[w].path, LOCAL_DOMAIN)

\* C5: a request for a path accepted after a request for that path
\* completed its fetch, rewrite and cache write (no SEO or static file
\* matching) takes the cache case and invokes neither adapter.
C5_LaterRequestsFromCache ==
    \A w \in Workers :
        LET r == req[w]
        IN  r.later /\ ~SeoCase(r.path) /\ ~StaticCase(r.path) =>
                /\ r.pc \notin {"fetch", "open", "write"}
                /\ ~r.render_called /\ ~r.archive_called
                /\ Ended(r) =>
                      /\ r.case = 3
                      /\ Len(r.emitted) = 1
                      /\ r.emitted[1].status = 200

\* a page fetched in this run is asked for again and comes from the cache
C5_Witness ==
    \E w \in Workers :
        /\ req[w].later /\ req[w].pc = "done" /\ req[w].case = 3
        /\ req[w].path = <<"blog">>
        /\ EmptyCache # cache /\ <<"about">> \notin cached_done


\* C6 as claimed: once the cache write of a path is complete, the entry
\* stays and its content never changes, whatever later or concurrent
\* requests do.
C6_EntriesImmutable ==
    [][\A p \in cached_done :
          /\ get_cache_path(p) \in DOMAIN cache'
          /\ cache'[get_cache_path(p)] = cache[get_cache_path(p)]]_vars

Rivals(a, b) == a # b /\ a \in req[b].rivals /\ b \in req[a].rivals

\* C7 as claimed, for the requests answered 200: two concurrent requests
\* that both missed the cache for the same path and both fetched leave
\* the same text in the cache entry, whichever of them writes last.
C7_ByteIdentical ==
    \A a, b \in Workers :
        /\ Rivals(a, b)
        /\ req[a].pc = "done" /\ req[b].pc = "done"
        /\ req[a].emitted[1].status = 200 /\ req[b].emitted[1].status = 200
        => /\ req[a].content = req[b].content
           /\ cache[get_cache_path(req[a].path)] = req[a].content.text

\* the documents the two adapters can deliver with status 200
FetchableDocs == {QuibeyDoc, WaybackDoc}

\* what a complete entry reads as
RewrittenDocs ==
    {read_text(fix_content(d, t.path, LOCAL_DOMAIN)) : d \in FetchableDocs, t \in Targets}

\* C8 as claimed, for what a request sees: a request answered from the
\* cache is served the complete output of fix_content on a fetched
\* document, never an entry that exists but is empty, partial or not
\* rewritten.
C8_CompleteEntries ==
    \A w \in Workers :
        req[w].case = 3 /\ Ended(req[w]) =>
            req[w].emitted[1].body \in RewrittenDocs

\* C9: there is no per-path fetch deduplication: a request that missed the
\* cache is never held back by another request in flight for the same
\* path, neither before the orchestrator nor before the cache write.
C9_NoDeduplication ==
    \A w \in Workers :
        /\ req[w].pc = "fetch" => ENABLED Fetch(w)
        /\ req[w].pc = "open" => ENABLED OpenCache(w)
        /\ req[w].pc = "write" => ENABLED WriteCache(w)

\* two concurrent requests for one uncached path have both missed the
\* cache, both called the orchestrator and are both writing the entry
C9_Witness ==
    \E a, b \in Workers :
        /\ Rivals(a, b)
        /\ req[a].path = req[b].path
        /\ req[a].pc = "write" /\ req[b].pc = "write"
        /\ req[a].render_called /\ req[b].render_called

\* C10: with remote fetch disabled (static-only mode on, or the flag off)
\* a request matching no SEO file, no static file and no cache entry gets
\* the "content unavailable" page with status 404, calls no adapter and
\* creates no cache entry.
C10_DisabledUnavailable ==
    Disabled =>
        /\ cache \in {EmptyCache, KeptCache}
        /\ \A w \in Workers :
              LET r == req[w]
              IN  /\ ~r.render_called /\ ~r.archive_called
                  /\ r.pc \notin {"fetch", "open", "write"}
                  /\ /\ Ended(r)
                     /\ ~SeoCase(r.path) /\ ~StaticCase(r.path)
                     /\ get_cache_path(r.path) \notin DOMAIN cache
                     => /\ r.case = 4
                        /\ r.emitted = <<Response(404, "text/html; charset=utf-8", TRUE,
                                                  unavailable_page(r.path))>>

\* static-only mode is on although the remote-fetch flag is on too, and an
\* unknown path got the "content unavailable" page
C10_Witness ==
    \E w \in Workers :
        /\ STATIC_ONLY /\ REMOTE_FETCH_ENV
        /\ req[w].pc = "done" /\ req[w].case = 4
        /\ req[w].path = <<"blog">>
        /\ cache = EmptyCache


HtmlResponse(status, body) == Response(status, "text/html; charset=utf-8", TRUE, body)

C11_State ==
    \A w \in Workers :
        LET r == req[w]
        IN  r.case = 5 /\ r.status = 200 /\ ~Truthy(r.raw) =>
                /\ Ended(r)
                /\ r.emitted = <<HtmlResponse(404, empty_page(r.path))>>
                /\ empty_page(r.path) \notin {not_found_page(r.path),
                                              unavailable_page(r.path)}

C11_Step ==
    \A w \in Workers :
        /\ req'[w] # req[w]
        /\ req'[w].case = 5 /\ req'[w].status = 200 /\ ~Truthy(req'[w].raw)
        => cache' = cache

\* C11: when the orchestrator returns status 200 with content absent or
\* empty, the router answers with the "archived content could not be
\* retrieved" page and status 404, and the cache is left as it was.
C11_EmptyContentPage == []C11_State /\ [][C11_Step]_vars

\* the archive answered 200 with an empty body; the request got the
\* "could not be retrieved" page and its path has no cache entry
C11_Witness ==
    \E w \in Workers :
        /\ req[w].pc = "done" /\ req[w].case = 5
        /\ req[w].status = 200 /\ req[w].raw = Str(<<>>)
        /\ req[w].emitted[1].status = 404
        /\ get_cache_path(req[w].path) \notin DOMAIN cache

C12_State ==
    \A w \in Workers :
        LET r == req[w]
        IN  r.case = 5 /\ r.status # 200 =>
                /\ Ended(r)
                /\ r.emitted = <<HtmlResponse(404, not_found_page(r.path))>>

C12_Step ==
    \A w \in Workers :
        /\ req'[w] # req[w]
        /\ req'[w].case = 5 /\ req'[w].status # 200
        => cache' = cache

\* C12: when the orchestrator returns a status other than 200, with or
\* without content, the router answers with the "not found" page and
\* status 404, never with the upstream status, and the cache is left as it
\* was.
C12_OtherStatusNotFound == []C12_State /\ [][C12_Step]_vars

\* the archive answered 203 with a document; the request got the "not
\* found" page with 404 and the document was not cached
C12_Witness ==
    \E w \in Workers :
        /\ req[w].pc = "done" /\ req[w].case = 5
        /\ req[w].status = 203 /\ Truthy(req[w].raw)
        /\ req[w].emitted[1].status = 404
        /\ get_cache_path(req[w].path) \notin DOMAIN cache

\* C13 as claimed: when the render adapter fails and the archive adapter
\* returns (markup, 200), the response is 200 with body
\* fix_content(markup, path, domain), and once the request has ended the
\* cache entry of the path holds exactly the body that was served.
C13_ArchiveFallbackCached ==
    \A w \in Workers :
        LET r == req[w]
        IN  /\ r.case = 5 /\ r.archive_called
            /\ r.status = 200 /\ Truthy(r.raw)
            /\ Ended(r)
            => /\ r.emitted =
                     <<HtmlResponse(200, fix_content(r.raw.text, r.path, LOCAL_DOMAIN))>>
               /\ get_cache_path(r.path) \in DOMAIN cache
               /\ cache[get_cache_path(r.path)] = r.emitted[1].body

\* C14 as claimed: a request for /sitemap.xml or /robots.txt whose file
\* exists is answered 200 with application/xml or text/plain and a body
\* that is byte for byte the contents of the file.
C14_SeoByteForByte ==
    \A w \in Workers :
        LET r == req[w]
        IN  r.case = 1 /\ Ended(r) =>
                r.emitted = <<Response(200,
                                       IF r.path = <<"sitemap.xml">>
                                       THEN "application/xml" ELSE "text/plain",
                                       FALSE, file_bytes(r.path))>>

\* the file that static_pages/<path> names, as the claim words it
StaticFile(path) ==
    LET loc == Resolve(<<>>, <<"static_pages">> \o path)
    IN  IF loc \in Files THEN loc ELSE loc \o <<"index.html">>

\* the file lies in the tree of static_pages
InsideStatic(file) == IsPrefix(<<"static_pages">>, file)

\* the extension table, for the files of the model
TableType(file) ==
    CASE file[Len(file)] \in {"index.html", "locked.html"} -> "text/html"
      [] file[Len(file)] = "style.css" -> "text/css"
      [] OTHER -> "application/octet-stream"

StaticResponse(path) ==
    Response(200, TableType(StaticFile(path)), FALSE, file_bytes(StaticFile(path)))

C15_State ==
    \A w \in Workers :
        LET r == req[w]
        IN  r.case = 2 =>
                /\ Ended(r)
                /\ StaticCase(r.path)
                /\ ~r.render_called /\ ~r.archive_called
                /\ r.content = None /\ r.raw = None
                /\ InsideStatic(StaticFile(r.path)) =>
                      IF StaticFile(r.path) \in Unreadable
                      THEN r.emitted = <<error_response>>
                      ELSE \/ r.emitted = <<StaticResponse(r.path)>>
                           \/ /\ r.emitted = <<StaticResponse(r.path), error_response>>
                              /\ r.pc = "crashed"

C15_Step ==
    \A w \in Workers :
        req'[w] # req[w] /\ req'[w].case = 2 => cache' = cache

C16_CacheHitVerbatim ==
    \A w \in Workers :
        LET r == req[w]
        IN  r.case = 3 /\ Ended(r) =>
                r.emitted = <<HtmlResponse(200, r.raw.text)>>

IsHtml(ctype) == ctype \in {"text/html", "text/html; charset=utf-8"}

\* C17 as claimed: every response of the router (status 200 or 404) has a
\* Content-Type, and every one whose type is HTML has the X-Robots-Tag
\* header as well.
C17_HtmlIndexed ==
    \A w \in Workers : \A i \in DOMAIN req[w].emitted :
        LET e == req[w].emitted[i]
        IN  e.status \in {200, 404} =>
                /\ e.ctype # ""
                /\ IsHtml(e.ctype) => e.robots

\* C18 as claimed: whatever happens to the client's connection while a
\* response is written, the handler ends normally: no exception leaves
\* do_GET and no error response is attempted.
C18_DisconnectSwallowed ==
    \A w \in Workers :
        /\ req[w].pc # "crashed"
        /\ \A i \in DOMAIN req[w].emitted :
              i > 1 => req[w].emitted[i] # error_response

IsPair(r) ==
    /\ DOMAIN r = {"content", "status"}
    /\ DOMAIN r.content = {"present", "text"}
    /\ r.status \in Nat

\* C19: whatever the render host and the archive host do, each adapter
\* returns a (content, status) pair, with content absent when the adapter
\* failed, and so does fetch_content: no failure leaves an adapter as an
\* exception.
C19_AdaptersReturnPairs ==
    probe.stage = "returned" =>
        /\ IsPair(probe.rendered)
        /\ IsPair(probe.archived)
        /\ IsPair(probe.out)
        /\ (~PLAYWRIGHT_AVAILABLE \/ probe.renv.kind = "raises") =>
              probe.rendered = Result(None, 500)
        /\ probe.aenv.kind = "HTTPError" =>
              probe.archived = Result(None, probe.aenv.code)
        /\ probe.aenv.kind = "URLError" => probe.archived = Result(None, 500)

\* the engine is missing and the archive host cannot be reached: both
\* adapters returned (absent, 500) and fetch_content returned the second
C19_Witness ==
    /\ probe.stage = "returned"
    /\ ~PLAYWRIGHT_AVAILABLE
    /\ probe.aenv.kind = "URLError"
    /\ probe.rendered = Result(None, 500)
    /\ probe.out = Result(None, 500)

\* C20 as claimed: fix_content is idempotent: applied to its own output,
\* with the same path and domain, it returns that output unchanged.
C20_Idempotent ==
    rewrite.stage = "twice" => rewrite.twice = rewrite.once


\* C28 as claimed: whatever the request path, the file that the static-file
\* case reads and returns lies in the tree of static_pages.
C28_StaticStaysInside ==
    \A w \in Workers : \A i \in DOMAIN req[w].emitted :
        req[w].case = 2 /\ req[w].emitted[i].status = 200 =>
            \E f \in Files :
                /\ InsideStatic(f)
                /\ req[w].emitted[i].body = file_bytes(f)


Called == rewrite.stage \in {"once", "twice"}

\* an opening <head> tag, as the claim words it
HeadTags == {"<head>", "<head lang=\"en\">"}

\* a canonical <link> tag, whatever its quoting
IsCanonical(f) ==
    f \in CanonicalLink \cup {"<link rel=canonical href=https://hero.page/blog>"}

\* C21 as claimed: when the input has a <head> tag, the output of
\* fix_content has exactly one canonical <link> tag, it names
\* https://{domain}{path}, and it stands right after the opening <head> tag.
C21_OneCanonicalAfterHead ==
    Called /\ (\E i \in DOMAIN rewrite.markup : rewrite.markup[i] \in HeadTags) =>
        LET out == rewrite.once
            tags == {i \in DOMAIN out : IsCanonical(out[i])}
        IN  /\ Cardinality(tags) = 1
            /\ \A i \in tags :
                  /\ out[i] = CanonicalTag(rewrite.domain, rewrite.path)
                  /\ i > 2
                  /\ out[i - 1] = "\n"
                  /\ out[i - 2] \in HeadTags

NoPointerEventsNone(text) ==
    /\ ~Contains(Merge(text), "pointer-events: none")
    /\ ~Contains(Merge(text), "pointer-events:none")

\* C22: the output of fix_content holds no "pointer-events: none" and no
\* "pointer-events:none", also where the removal of a script has brought
\* the two halves of such a text together.
C22_NoPointerEventsNone ==
    /\ Called => NoPointerEventsNone(rewrite.once)
    /\ rewrite.stage = "twice" => NoPointerEventsNone(rewrite.twice)

\* the input held "pointer-events: no", a script and "ne" in a row; the
\* script was removed and the text it left was rewritten to auto
C22_Witness ==
    /\ rewrite.stage = "once"
    /\ \E i \in 1..(Len(rewrite.markup) - 2) :
          /\ rewrite.markup[i] = PeHead
          /\ rewrite.markup[i + 1] \in MainScript
          /\ rewrite.markup[i + 2] = PeTail
    /\ Contains(rewrite.once, "pointer-events: auto")
    /\ ~Contains(rewrite.once, PeTail)

\* the text holds an empty root container
HasMarker(text) ==
    Contains(Merge(text), RootPlain) \/ Contains(Merge(text), RootMainWindow)

FallbackBlocks ==
    {fallback_content(t, d) : t \in {"Hero Page", "Hero Blog", "Quibey"},
                              d \in {"", "Link in bio pages"}}

\* a root container of the text holds the fallback block
HasBlock(text) ==
    \E i \in 1..(Len(text) - 2) :
        /\ text[i] \in {RootOpen, "<div class=\"main-window\" id=\"root\">"}
        /\ text[i + 1] \in FallbackBlocks
        /\ text[i + 2] = DivClose

\* C23 as claimed: an input with an empty root container comes out with
\* the fallback block inside the container, and on an input without one
\* the fallback rule changes nothing.
C23_FallbackOnlyForMarkedInput ==
    Called =>
        LET before == BeforeFallback(rewrite.markup, rewrite.path, rewrite.domain)
        IN  /\ HasMarker(rewrite.markup) => HasBlock(rewrite.once)
            /\ ~HasMarker(rewrite.markup) => rewrite.once = before

\* C23 as amended: an input with an empty root container comes out with
\* the fallback block inside the container and no empty container left; the
\* fallback rule changes nothing exactly when the text it receives, the
\* input after the earlier rules, holds no empty root container.  An input
\* without one still gets the block when the removal of a script leaves
\* its root container empty.
C23_FallbackOnMarkedText ==
    Called =>
        LET before == BeforeFallback(rewrite.markup, rewrite.path, rewrite.domain)
        IN  /\ HasMarker(rewrite.markup) =>
                  HasMarker(before) /\ HasBlock(rewrite.once) /\ ~HasMarker(rewrite.once)
            /\ HasMarker(before) => HasBlock(rewrite.once) /\ rewrite.once # before
            /\ ~HasMarker(before) => rewrite.once = before /\ ~HasBlock(rewrite.once)

\* the input had a script inside its root container and no empty
\* container; the script was removed and the container got the block
C23_Witness ==
    /\ rewrite.stage = "once"
    /\ rewrite.markup = <<RootOpen, "<script src=\"/static/js/main.8f3a.js\"></script>",
                          DivClose>>
    /\ ~HasMarker(rewrite.markup)
    /\ HasBlock(rewrite.once)


\* C24 as claimed: a request accepted after content was stored under its
\* path finds the entry, and what it reads from the entry is exactly the
\* content that was stored.
C24_GetAfterPut ==
    \A w \in Workers :
        LET r == req[w]
        IN  /\ r.later /\ r.case = 3 /\ Ended(r)
            /\ r.raw.text \in {fix_content(d, r.path, LOCAL_DOMAIN) : d \in FetchableDocs}
            => r.content = r.raw

\* the serialized document passes the test of line 136, as the claim words
\* it: over 1000 characters, and "<!" or "<html" first after white space
Validated(dom) ==
    /\ DocLen(dom) > 1000
    /\ \E i \in DOMAIN dom :
          /\ dom[i] \in {"<!DOCTYPE html>", "<html>", "<html lang=\"en\">"}
          /\ \A j \in 1..(i - 1) : dom[j] \in {"\n", " "}

\* C25: every result of the render adapter is (content, 200), (absent, 404)
\* or (absent, 500): (absent, 500) when the engine is missing or the render
\* raises, (absent, 404) when the content type is not HTML or the document
\* fails the validation, and (content, 200) with the validated document
\* otherwise.
C25_RenderResults ==
    probe.stage = "returned" =>
        LET r == probe.rendered
            e == probe.renv
            failed == ~PLAYWRIGHT_AVAILABLE \/ e.kind = "raises"
            html == e.ctype \in {"text/html", "text/html; charset=utf-8"}
        IN  /\ r \in {Result(Str(e.dom), 200), Result(None, 404), Result(None, 500)}
            /\ failed => r = Result(None, 500)
            /\ ~failed /\ (~html \/ ~Validated(e.dom)) => r = Result(None, 404)
            /\ ~failed /\ html /\ Validated(e.dom) => r = Result(Str(e.dom), 200)
            /\ r.status = 200 => Truthy(r.content) /\ Validated(r.content.text)

\* an HTML page of over 1000 characters that does not start as a document
\* came back as (absent, 404), and one with a newline ahead of its doctype
\* is among the results with 200
C25_Witness ==
    /\ probe.stage = "returned"
    /\ PLAYWRIGHT_AVAILABLE
    /\ probe.renv.kind = "page" /\ probe.renv.dom = HeadlessDoc
    /\ DocLen(probe.renv.dom) > 1000
    /\ probe.rendered = Result(None, 404)

\* C26: the status of the archive adapter's result is the status of the
\* transport: (body, s) for a response with status s, (absent, code) for an
\* HTTP error, (absent, 500) for any other failure; fetch_content hands the
\* result on with its status, and the router's test of success (line 228)
\* fails on every status other than 200.
C26_ArchiveStatusPreserved ==
    probe.stage = "returned" =>
        LET e == probe.aenv
        IN  /\ e.kind = "response" => probe.archived = Result(Str(e.body), e.code)
            /\ e.kind = "HTTPError" => probe.archived = Result(None, e.code)
            /\ e.kind \notin {"response", "HTTPError"} =>
                  probe.archived = Result(None, 500)
            /\ probe.rendered.status # 200 => probe.out = probe.archived
            /\ probe.out.status # 200 =>
                  ~fetch_succeeded(probe.out.content, probe.out.status)

\* the archive answered 203 with a document: the result carries 203 and
\* the document, and the router does not take it for a success
C26_Witness ==
    /\ probe.stage = "returned"
    /\ probe.aenv.kind = "response" /\ probe.aenv.code = 203
    /\ probe.out = Result(Str(WaybackDoc), 203)
    /\ ~fetch_succeeded(probe.out.content, probe.out.status)

Got404(r) == Ended(r) /\ r.emitted[1].status = 404

C27_State ==
    \A w \in Workers :
        Got404(req[w]) =>
            /\ req[w].case \in {4, 5}
            /\ req[w].case = 5 => ~(req[w].status = 200 /\ Truthy(req[w].raw))

C27_Step ==
    \A w \in Workers :
        /\ req'[w] # req[w] /\ Got404(req'[w]) => cache' = cache
        /\ /\ req[w].pc = "cache" /\ req'[w].pc # "cache"
           /\ \E o \in Workers \ {w} : Got404(req[o]) /\ req[o].path = req[w].path
           /\ get_cache_path(req[w].path) \notin DOMAIN cache
           /\ ~Disabled
           => req'[w].pc = "fetch"
        /\ req[w].pc = "fetch" /\ req'[w].pc # "fetch" => req'[w].render_called

\* C27: failures are never cached: the step in which a request ends with a
\* 404 page leaves the cache as it was, and a later request for the same
\* path that finds no entry, with remote fetch enabled, goes to the
\* orchestrator again.
C27_FailuresNotCached == []C27_State /\ [][C27_Step]_vars

\* a request got the 404 page, and a request for the same path that came
\* after its fetch was fetched with success, cached and answered 200
C27_Witness ==
    \E a, b \in Workers :
        /\ a # b /\ req[a].path = req[b].path
        /\ Got404(req[a]) /\ req[a].case = 5
        /\ b \notin req[a].rivals
        /\ req[b].pc = "done" /\ req[b].case = 5
        /\ req[b].emitted[1].status = 200
        /\ get_cache_path(req[b].path) \in DOMAIN cache
        /\ cache[get_cache_path(req[b].path)] = req[b].content.text

AllPaths == {t.path : t \in Targets}

\* the cache entry of a path: absent, or its text
Entry(c, path) ==
    IF get_cache_path(path) \in DOMAIN c THEN Str(c[get_cache_path(path)]) ELSE None

\* C29: a step of a request for path P leaves the cache entry of every
\* other path as it was, in every interleaving.
C29_OtherEntriesUntouched ==
    [][cache' # cache =>
          \A w \in Workers :
              req'[w].pc # req[w].pc =>
                  \A q \in AllPaths \ {req'[w].path} :
                      Entry(cache', q) = Entry(cache, q)]_vars

\* one request is in the middle of its cache write, its entry empty, while
\* the entry that a request for another path wrote is complete
C29_Witness ==
    \E a, b \in Workers :
        /\ req[a].path # req[b].path
        /\ req[a].pc = "write" /\ Entry(cache, req[a].path) = Str(<<>>)
        /\ req[b].pc = "done" /\ req[b].case = 5 /\ req[b].emitted[1].status = 200
        /\ Entry(cache, req[b].path) = req[b].content
        /\ Truthy(req[b].content)

\* C30 as claimed, for the responses: a request that has finished has
\* emitted exactly one response, and none emits a second one after the
\* headers of a first were sent.
C30_ExactlyOneResponse ==
    \A w \in Workers :
        /\ Ended(req[w]) => Len(req[w].emitted) = 1
        /\ Len(req[w].emitted) <= 1

=============================================================================
